---- MODULE Spec2Model ----
\* node-red-contrib-fabric-composer: the shared connection of
\* nodes/fabric-composer.js and the create / update / retrieve operations of
\* its two node types, as a state machine over promise callbacks.
\*
\* Every promise callback of the source that contains code is one action.  The
\* callbacks that are ready to run wait in a FIFO queue (microtasks), as in
\* the JavaScript job queue; a remote call settles in an action of its own
\* that appends the reaction registered on it to the queue.
EXTENDS Integers, Sequences, FiniteSets, TLC

\* the number of messages the flow receives
MaxMsgs == 2

----------------------------------------------------------------------------
\* Constants of the source

UPDATE == "update"
RETRIEVE == "retrieve"
CREATE == "create"

undefined == "undefined"

----------------------------------------------------------------------------
\* The deployed flow: the nodes, their configuration, the payloads they get

OutType == "fabric-composer-out"
MidType == "fabric-composer-mid"

Config(p, n, u, s, a) ==
  [connectionProfile |-> p, businessNetworkIdentifier |-> n,
   participantId |-> u, participantPassword |-> s, actionType |-> a]

Nodes ==
  {"create", "update", "mid", "other", "bad1234", "bad234", "bad34", "bad4"}

NodeType(n) == IF n \in {"mid", "bad234", "bad4"} THEN MidType ELSE OutType

NodeConfig(n) ==
  CASE n = "create"  -> Config("pA", "nA", "uA", "sA", CREATE)
    [] n = "update"  -> Config("pB", "nB", "uB", "sB", UPDATE)
    [] n = "mid"     -> Config("pB", "nB", "uB", "sB", RETRIEVE)
    [] n = "other"   -> Config("pA", "nA", "uA", "sA", "")
    [] n = "bad1234" -> Config("", "", "", "", CREATE)
    [] n = "bad234"  -> Config("pA", "", "", "", RETRIEVE)
    [] n = "bad34"   -> Config("pA", "nA", "", "", UPDATE)
    [] n = "bad4"    -> Config("pA", "nA", "uA", "", RETRIEVE)

\* A JSON payload; "" (0 for v) stands for an absent property.
Res(c, i, v) == [class |-> c, modelName |-> "", id |-> i, v |-> v]
Req(t, i) == [class |-> "", modelName |-> t, id |-> i, v |-> 0]

\* The flows that are deployed: the nodes of each and the payloads the
\* upstream nodes of the flow send to them.  The flow "mixed", with a payload
\* for every path of the three operations, is the one of FairSpec.
Flows == {"assets", "participants", "kinds", "misconfigured", "unset"}

FlowNodes(f) ==
  IF f = "misconfigured"
  THEN {"bad1234", "bad234", "bad34", "bad4", "create"}
  ELSE IF f = "unset" THEN {"other", "create"}
  ELSE {"create", "update", "mid"}

FlowPayloads(f, n) ==
  CASE f = "assets" /\ n = "create" -> {Res("org.acme.Car", "i1", 1)}
    [] f = "assets" /\ n = "update" -> {Res("org.acme.Car", "i1", 2)}
    [] f = "assets" /\ n = "mid" -> {Req("org.acme.Car", "i1")}
    [] f = "participants" /\ n = "create" ->
         {Res("org.acme.Member", "i1", 1), Res("", "i1", 1)}
    [] f = "participants" /\ n = "update" -> {Res("org.acme.Member", "i1", 2)}
    [] f = "participants" /\ n = "mid" ->
         {Req("org.acme.Member", "i1"), Req("org.acme.Member", ""),
          Req("", "")}
    [] f = "kinds" /\ n = "create" ->
         {Res("org.acme.Trade", "i1", 1), Res("org.acme.Address", "i1", 1),
          Res("org.acme.Nope", "i1", 1)}
    [] f = "kinds" /\ n = "update" ->
         {Res("org.acme.Trade", "i1", 1), Res("org.acme.Address", "i1", 1),
          Res("", "i1", 1)}
    [] f = "kinds" /\ n = "mid" ->
         {Req("org.acme.Trade", "i1"), Req("org.acme.Nope", "i1")}
    [] f = "mixed" /\ n = "create" ->
         {Res("org.acme.Car", "i1", 1), Res("org.acme.Trade", "i1", 1),
          Res("", "i1", 1)}
    [] f = "mixed" /\ n = "update" -> {Res("org.acme.Car", "i1", 2)}
    [] f = "mixed" /\ n = "mid" -> {Req("org.acme.Car", "i1")}
    [] f = "unset" /\ n = "other" ->
         {Res("", "i1", 1), Res("org.acme.Car", "i1", 2)}
    [] f = "misconfigured" /\ n = "bad1234" -> {Res("", "i1", 1)}
    [] f = "misconfigured" /\ n = "bad234" -> {Req("", "")}
    [] f = "misconfigured" /\ n = "bad4" -> {Req("org.acme.Car", "i1")}
    [] OTHER -> {Res("org.acme.Car", "i1", 1)}

----------------------------------------------------------------------------
\* The business network's type model and serializer (composer-common)

\* the declaration a type name resolves to; "None" when the model has none
DeclKind(t) ==
  CASE t = "org.acme.Car" -> "Asset"
    [] t = "org.acme.Member" -> "Participant"
    [] t = "org.acme.Trade" -> "Transaction"
    [] t = "org.acme.Address" -> "Concept"
    [] OTHER -> "None"

\* serializer.fromJSON: defined on payloads whose $class the model declares
CanFromJSON(p) == p.class # "" /\ DeclKind(p.class) # "None"
fromJSON(p) == [type |-> p.class, id |-> p.id, v |-> p.v]

\* serializer.toJSON
toJSON(r) == [class |-> r.type, modelName |-> "", id |-> r.id, v |-> r.v]

NoResource == [type |-> "", id |-> "", v |-> 0]
NoJSON == [class |-> "", modelName |-> "", id |-> "", v |-> 0]

----------------------------------------------------------------------------
VARIABLES
  flow,         \* the flow that is deployed
  connected, connecting, connectionPromise,
  connectionProfileName, businessNetworkIdentifier, participantId,
  participantPassword,
  businessNetworkDefinition, serializer, modelManager, introspector,
  attempts,     \* the calls of businessNetworkConnection.connect, in order
  registry,     \* the resources the remote registries hold
  msgs,         \* the messages received, each with its handler's position
  microtasks    \* the callbacks ready to run, oldest first

session == <<connected, connecting, connectionPromise>>
settings == <<connectionProfileName, businessNetworkIdentifier, participantId,
              participantPassword>>
artifacts == <<businessNetworkDefinition, serializer, modelManager,
               introspector>>
vars == <<flow, session, settings, artifacts, attempts, registry, msgs,
          microtasks>>

Ids == 1..Len(msgs)

Init ==
  /\ flow \in Flows
  /\ connected = FALSE
  /\ connecting = FALSE
  /\ connectionPromise = 0
  /\ connectionProfileName = undefined
  /\ businessNetworkIdentifier = undefined
  /\ participantId = undefined
  /\ participantPassword = undefined
  /\ businessNetworkDefinition = undefined
  /\ serializer = undefined
  /\ modelManager = undefined
  /\ introspector = undefined
  /\ attempts = <<>>
  /\ registry = {}
  /\ msgs = <<>>
  /\ microtasks = <<>>

NewMsg(n, p) ==
  [node |-> n, payload |-> p, pc |-> "checkConfig",
   checked |-> FALSE,     \* checkPayLoad ran for this message
   op |-> "",             \* the operation the adapter called
   via |-> "none",        \* the branch ensureConnected took for it
   fut |-> 0,             \* the connect attempt whose promise it was given
   calls |-> <<>>,        \* the registry and submit calls issued for it
   error |-> <<>>,        \* the error its promise chain is rejected with
   kind |-> "",           \* the declaration its resource was found to have
   result |-> NoResource, \* the resource registry.get gave
   value |-> NoJSON,      \* the value retrieve's promise is fulfilled with
   status |-> <<>>,       \* node.status calls
   errors |-> <<>>,       \* node.error calls
   sent |-> <<>>]         \* node.send calls

\* node.on('input'): the handler calls checkConfig, which queues its body
Receive(n, p) ==
  /\ Len(msgs) < MaxMsgs
  /\ n \in FlowNodes(flow)
  /\ p \in FlowPayloads(flow, n)
  /\ msgs' = Append(msgs, NewMsg(n, p))
  /\ microtasks' = Append(microtasks, Len(msgs) + 1)
  /\ UNCHANGED <<flow, session, settings, artifacts, attempts, registry>>

----------------------------------------------------------------------------
\* Helpers of the callback queue

\* callback `pc` of message m is the next job to run
Ready(m, pc) ==
  /\ m \in Ids
  /\ microtasks # <<>>
  /\ Head(microtasks) = m
  /\ msgs[m].pc = pc

\* the running callback of m is done and its successor `pc` is queued
Queue(ms, m, pc) ==
  /\ msgs' = [ms EXCEPT ![m].pc = pc]
  /\ microtasks' = Append(Tail(microtasks), m)

\* the running callback of m threw `err`; the rejection reaches handler `pc`
Throw(ms, m, pc, err) ==
  Queue([ms EXCEPT ![m].error = err], m, pc)

\* the running callback of m is done and nothing of m is ready
Park(ms, m, pc) ==
  /\ msgs' = [ms EXCEPT ![m].pc = pc]
  /\ microtasks' = Tail(microtasks)

\* the catch of the adapter that received m
AdapterCatch(m) ==
  IF NodeType(msgs[m].node) = MidType THEN "midCatch" ELSE "outCatch"

\* the catch a rejection inside operation `op` reaches first
OpCatch(op) ==
  CASE op = CREATE -> "createCatch"
    [] op = UPDATE -> "updateCatch"
    [] op = RETRIEVE -> "retrieveCatch"

----------------------------------------------------------------------------
\* Payload validator

\* checkConfig with the checks in the opposite order
checkConfigReversed(config) ==
  IF config.participantPassword = ""
    THEN "participant password must be set"
  ELSE IF config.participantId = "" THEN "participant id must be set"
  ELSE IF config.businessNetworkIdentifier = ""
    THEN "business network identifier must be set"
  ELSE IF config.connectionProfile = "" THEN "connection profile must be set"
  ELSE ""

\* the message of the error checkConfig throws, '' when it throws none
checkConfig(config) ==
  IF config.connectionProfile = "" THEN "connection profile must be set"
  ELSE IF config.businessNetworkIdentifier = ""
    THEN "business network identifier must be set"
  ELSE IF config.participantId = "" THEN "participant id must be set"
  ELSE IF config.participantPassword = ""
    THEN "participant password must be set"
  ELSE ""

\* checkPayLoad that checks $class for update only
checkPayLoadUpdateOnly(payLoad, type) ==
  IF type = RETRIEVE
  THEN IF payLoad.modelName = "" THEN "modelName not set in payload"
       ELSE IF payLoad.id = "" THEN "id not set in payload"
       ELSE ""
  ELSE IF type = UPDATE
  THEN IF payLoad.class = "" THEN "$class not set in payload" ELSE ""
  ELSE ""

\* checkPayLoad that checks id before modelName
checkPayLoadIdFirst(payLoad, type) ==
  IF type = RETRIEVE
  THEN IF payLoad.id = "" THEN "id not set in payload"
       ELSE IF payLoad.modelName = "" THEN "modelName not set in payload"
       ELSE ""
  ELSE IF type = UPDATE \/ type = CREATE
  THEN IF payLoad.class = "" THEN "$class not set in payload" ELSE ""
  ELSE ""

\* the message of the error checkPayLoad throws, '' when it throws none
checkPayLoad(payLoad, type) ==
  IF type = RETRIEVE
  THEN IF payLoad.modelName = "" THEN "modelName not set in payload"
       ELSE IF payLoad.id = "" THEN "id not set in payload"
       ELSE ""
  ELSE IF type = UPDATE \/ type = CREATE
  THEN IF payLoad.class = "" THEN "$class not set in payload" ELSE ""
  ELSE ""

\* the type the adapter of node n validates payloads for
PayLoadType(n) ==
  IF NodeType(n) = MidType THEN RETRIEVE ELSE NodeConfig(n).actionType

\* the body of checkConfig's promise
CheckConfigBody(m) ==
  /\ Ready(m, "checkConfig")
  /\ LET e == checkConfig(NodeConfig(msgs[m].node))
     IN  IF e # "" THEN Throw(msgs, m, AdapterCatch(m), <<e>>)
         ELSE Queue(msgs, m, "setParams")
  /\ UNCHANGED <<flow, session, settings, artifacts, attempts, registry>>

\* the first then that keeps a password that is already stored
SetParamsKeepsPassword(m) ==
  /\ Ready(m, "setParams")
  /\ LET config == NodeConfig(msgs[m].node)
     IN  /\ connectionProfileName' = config.connectionProfile
         /\ businessNetworkIdentifier' = config.businessNetworkIdentifier
         /\ participantId' = config.participantId
         /\ participantPassword' =
              IF participantPassword = undefined
              THEN config.participantPassword ELSE participantPassword
  /\ Queue(msgs, m, "checkPayLoad")
  /\ UNCHANGED <<flow, session, artifacts, attempts, registry>>

\* the first then of both adapters: store the settings, call checkPayLoad
SetParams(m) ==
  /\ Ready(m, "setParams")
  /\ LET config == NodeConfig(msgs[m].node)
     IN  /\ connectionProfileName' = config.connectionProfile
         /\ businessNetworkIdentifier' = config.businessNetworkIdentifier
         /\ participantId' = config.participantId
         /\ participantPassword' = config.participantPassword
  /\ Queue(msgs, m, "checkPayLoad")
  /\ UNCHANGED <<flow, session, artifacts, attempts, registry>>

\* the body of checkPayLoad's promise
CheckPayLoadBody(m) ==
  /\ Ready(m, "checkPayLoad")
  /\ LET e == checkPayLoad(msgs[m].payload, PayLoadType(msgs[m].node))
         ms == [msgs EXCEPT ![m].checked = TRUE]
     IN  IF e # "" THEN Throw(ms, m, AdapterCatch(m), <<e>>)
         ELSE Queue(ms, m, "dispatch")
  /\ UNCHANGED <<flow, session, settings, artifacts, attempts, registry>>

----------------------------------------------------------------------------
\* Session manager

\* connectInternal, called for message m: one call of connect with the stored
\* settings; the caller's then is registered on the new connectionPromise
connectInternal(m, ms) ==
  /\ connecting' = TRUE
  /\ connected' = FALSE
  /\ attempts' = Append(attempts,
       [by |-> m,
        profile |-> connectionProfileName,
        network |-> businessNetworkIdentifier,
        user |-> participantId,
        secret |-> participantPassword,
        outcome |-> "pending",   \* of the remote connect
        promise |-> "pending",   \* connectionPromise of this attempt
        errors |-> <<>>,         \* node.error calls of connectInternal
        waiters |-> <<m>>])      \* thens registered on that promise
  /\ connectionPromise' = Len(attempts) + 1
  /\ Park([ms EXCEPT ![m].via = "started", ![m].fut = Len(attempts) + 1],
          m, "waitConnect")

\* ensureConnected without the branch on connecting
ensureConnectedNoDedup(m, ms) ==
  IF connected
  THEN /\ Queue([ms EXCEPT ![m].via = "resolved"], m, "body")
       /\ UNCHANGED <<session, attempts>>
  ELSE connectInternal(m, ms)

\* ensureConnected without the branch on connected
ensureConnectedNoReuse(m, ms) ==
  IF connecting
  THEN /\ attempts' = [attempts EXCEPT ![connectionPromise].waiters =
                         Append(@, m)]
       /\ Park([ms EXCEPT ![m].via = "joined", ![m].fut = connectionPromise],
               m, "waitConnect")
       /\ UNCHANGED session
  ELSE connectInternal(m, ms)

\* ensureConnected(node).then(body) of message m
ensureConnected(m, ms) ==
  IF connected
  THEN /\ Queue([ms EXCEPT ![m].via = "resolved"], m, "body")
       /\ UNCHANGED <<flow, session, attempts>>
  ELSE IF connecting
  THEN /\ attempts' = [attempts EXCEPT ![connectionPromise].waiters =
                         Append(@, m)]
       /\ Park([ms EXCEPT ![m].via = "joined", ![m].fut = connectionPromise],
               m, "waitConnect")
       /\ UNCHANGED session
  ELSE connectInternal(m, ms)

\* the jobs of connect attempt k are queued as -k
Chain(k, stage) ==
  /\ k \in 1..Len(attempts)
  /\ microtasks # <<>>
  /\ Head(microtasks) = -k
  /\ attempts[k].outcome = stage

\* the remote connect of attempt k settles
ConnectSettle(k, ok) ==
  /\ k \in 1..Len(attempts)
  /\ attempts[k].outcome = "pending"
  /\ attempts' = [attempts EXCEPT ![k].outcome =
                    IF ok THEN "resolved" ELSE "rejected"]
  /\ microtasks' = Append(microtasks, -k)
  /\ UNCHANGED <<flow, session, settings, artifacts, registry, msgs>>

\* the first then without the assignment to serializer
ConnectThen1NoSerializer(k) ==
  /\ Chain(k, "resolved")
  /\ businessNetworkDefinition' = "result"
  /\ serializer' = serializer
  /\ modelManager' = "getModelManager()"
  /\ introspector' = "getIntrospector()"
  /\ attempts' = [attempts EXCEPT ![k].outcome = "setup"]
  /\ microtasks' = Append(Tail(microtasks), -k)
  /\ UNCHANGED <<flow, session, settings, registry, msgs>>

\* the first then of connectInternal
ConnectThen1(k) ==
  /\ Chain(k, "resolved")
  /\ businessNetworkDefinition' = "result"
  /\ serializer' = "getSerializer()"
  /\ modelManager' = "getModelManager()"
  /\ introspector' = "getIntrospector()"
  /\ attempts' = [attempts EXCEPT ![k].outcome = "setup"]
  /\ microtasks' = Append(Tail(microtasks), -k)
  /\ UNCHANGED <<flow, session, settings, registry, msgs>>

\* connectionPromise of attempt k is settled without its thens being queued
FulfilDropsWaiters(k) ==
  /\ attempts' = [attempts EXCEPT ![k].outcome =
                    IF @ = "setup" THEN "connected" ELSE "failed",
                  ![k].errors =
                    IF attempts[k].outcome = "setup" THEN @
                    ELSE Append(@, <<"connect failed">>),
                  ![k].promise = "fulfilled"]
  /\ msgs' = msgs
  /\ microtasks' = Tail(microtasks)

\* connectionPromise of attempt k is fulfilled: the thens registered on it
\* are queued in the order of their registration
Fulfil(k) ==
  /\ attempts' = [attempts EXCEPT ![k].outcome =
                    IF @ = "setup" THEN "connected" ELSE "failed",
                  ![k].errors =
                    IF attempts[k].outcome = "setup" THEN @
                    ELSE Append(@, <<"connect failed">>),
                  ![k].promise = "fulfilled"]
  /\ msgs' = [i \in Ids |->
                IF msgs[i].fut = k /\ msgs[i].pc = "waitConnect"
                THEN [msgs[i] EXCEPT !.pc = "body"] ELSE msgs[i]]
  /\ microtasks' = Tail(microtasks) \o attempts[k].waiters

\* the second then without the assignment to connected
ConnectThen2NotConnected(k) ==
  /\ Chain(k, "setup")
  /\ connected' = connected
  /\ connecting' = FALSE
  /\ Fulfil(k)
  /\ UNCHANGED <<flow, connectionPromise, settings, artifacts, registry>>

\* the second then of connectInternal
ConnectThen2(k) ==
  /\ Chain(k, "setup")
  /\ connected' = TRUE
  /\ connecting' = FALSE
  /\ Fulfil(k)
  /\ UNCHANGED <<flow, connectionPromise, settings, artifacts, registry>>

\* the catch of connectInternal that resets connected only
ConnectCatchStaysConnecting(k) ==
  /\ Chain(k, "rejected")
  /\ connected' = FALSE
  /\ connecting' = connecting
  /\ Fulfil(k)
  /\ UNCHANGED <<flow, connectionPromise, settings, artifacts, registry>>

\* the catch of connectInternal: the error is logged and not thrown again
ConnectCatch(k) ==
  /\ Chain(k, "rejected")
  /\ connected' = FALSE
  /\ connecting' = FALSE
  /\ Fulfil(k)
  /\ UNCHANGED <<flow, connectionPromise, settings, artifacts, registry>>

----------------------------------------------------------------------------
\* Flow adapters: the then that starts the operation

OutDispatch(m) ==
  /\ Ready(m, "dispatch")
  /\ NodeType(msgs[m].node) = OutType
  /\ LET op == IF NodeConfig(msgs[m].node).actionType = "create"
               THEN CREATE ELSE UPDATE
     IN  ensureConnected(m, [msgs EXCEPT ![m].op = op])
  /\ UNCHANGED <<flow, settings, artifacts, registry>>

MidDispatch(m) ==
  /\ Ready(m, "dispatch")
  /\ NodeType(msgs[m].node) = MidType
  /\ ensureConnected(m, [msgs EXCEPT ![m].op = RETRIEVE,
                           ![m].status = Append(@, "retrieving resource")])
  /\ UNCHANGED <<flow, settings, artifacts, registry>>

----------------------------------------------------------------------------
\* Resource dispatcher

\* a call on the remote client, with the session state it was issued in
Call(op, name, res) ==
  [op |-> op, name |-> name, res |-> res, connected |-> connected,
   result |-> "pending"]

\* the running callback of m issues a remote call and waits for it
Issue(ms, m, call, pc) ==
  Park([ms EXCEPT ![m].calls = Append(@, call)], m, pc)

TypeErrorOf(property) ==
  <<"Cannot read property '", property, "' of undefined">>

UnableToHandle == <<"Unable to handle resource of type: ", "object">>

\* the then of create: deserialize, classify, call the registry or submit
CreateBody(m) ==
  /\ Ready(m, "body")
  /\ msgs[m].op = CREATE
  /\ LET data == msgs[m].payload
         resource == fromJSON(data)
         kind == DeclKind(resource.type)
         ms == [msgs EXCEPT ![m].kind = kind]
     IN  IF businessNetworkDefinition = undefined
         THEN Throw(msgs, m, "createCatch", TypeErrorOf("getSerializer"))
         ELSE IF ~CanFromJSON(data)
         THEN Throw(msgs, m, "createCatch", <<"fromJSON: ", data.class>>)
         ELSE IF kind = "Asset"
         THEN Issue(ms, m,
                Call("getAssetRegistry", resource.type, NoResource),
                "waitLookup")
         ELSE IF kind = "Transaction"
         THEN Issue(ms, m, Call("submitTransaction", "", resource),
                "waitSubmit")
         ELSE IF kind = "Participant"
         THEN Issue(ms, m,
                Call("getParticipantRegistry", resource.type, NoResource),
                "waitLookup")
         ELSE Park([ms EXCEPT ![m].errors = Append(@, UnableToHandle)],
                   m, "done")
  /\ UNCHANGED <<flow, session, settings, artifacts, attempts, registry>>

\* the then of update with create's branch for transactions
UpdateBodySubmits(m) ==
  /\ Ready(m, "body")
  /\ msgs[m].op = UPDATE
  /\ LET data == msgs[m].payload
         resource == fromJSON(data)
         kind == DeclKind(resource.type)
         ms == [msgs EXCEPT ![m].kind = kind]
     IN  IF businessNetworkDefinition = undefined
         THEN Throw(msgs, m, "updateCatch", TypeErrorOf("getSerializer"))
         ELSE IF ~CanFromJSON(data)
         THEN Throw(msgs, m, "updateCatch", <<"fromJSON: ", data.class>>)
         ELSE IF kind = "Asset"
         THEN Issue(ms, m,
                Call("getAssetRegistry", resource.type, NoResource),
                "waitLookup")
         ELSE IF kind = "Transaction"
         THEN Issue(ms, m, Call("submitTransaction", "", resource),
                "waitSubmit")
         ELSE IF kind = "Participant"
         THEN Issue(ms, m,
                Call("getParticipantRegistry", resource.type, NoResource),
                "waitLookup")
         ELSE Throw(ms, m, "updateCatch", UnableToHandle)
  /\ UNCHANGED <<flow, session, settings, artifacts, attempts, registry>>

\* the then of update
UpdateBody(m) ==
  /\ Ready(m, "body")
  /\ msgs[m].op = UPDATE
  /\ LET data == msgs[m].payload
         resource == fromJSON(data)
         kind == DeclKind(resource.type)
         ms == [msgs EXCEPT ![m].kind = kind]
     IN  IF businessNetworkDefinition = undefined
         THEN Throw(msgs, m, "updateCatch", TypeErrorOf("getSerializer"))
         ELSE IF ~CanFromJSON(data)
         THEN Throw(msgs, m, "updateCatch", <<"fromJSON: ", data.class>>)
         ELSE IF kind = "Asset"
         THEN Issue(ms, m,
                Call("getAssetRegistry", resource.type, NoResource),
                "waitLookup")
         ELSE IF kind = "Participant"
         THEN Issue(ms, m,
                Call("getParticipantRegistry", resource.type, NoResource),
                "waitLookup")
         ELSE Throw(ms, m, "updateCatch", UnableToHandle)
  /\ UNCHANGED <<flow, session, settings, artifacts, attempts, registry>>

\* the then of retrieve
RetrieveBody(m) ==
  /\ Ready(m, "body")
  /\ msgs[m].op = RETRIEVE
  /\ LET modelName == msgs[m].payload.modelName
         kind == DeclKind(modelName)
         ms == [msgs EXCEPT ![m].kind = kind]
     IN  IF businessNetworkDefinition = undefined
         THEN Throw(msgs, m, "retrieveCatch", TypeErrorOf("getModelManager"))
         ELSE IF kind = "Asset"
         THEN Issue(ms, m, Call("getAssetRegistry", modelName, NoResource),
                "waitLookup")
         ELSE IF kind = "Participant"
         THEN Issue(ms, m,
                Call("getParticipantRegistry", modelName, NoResource),
                "waitLookup")
         ELSE Throw(ms, m, "retrieveCatch", UnableToHandle)
  /\ UNCHANGED <<flow, session, settings, artifacts, attempts, registry>>

\* the remote call m waits for settles: its result is recorded and the
\* reaction is queued, the next then or the catch the rejection reaches
Settle(m, ok, pc, catch, err) ==
  /\ msgs' = [msgs EXCEPT
       ![m].calls[Len(msgs[m].calls)].result = IF ok THEN "ok" ELSE "failed",
       ![m].error = IF ok THEN @ ELSE err,
       ![m].pc = IF ok THEN pc ELSE catch]
  /\ microtasks' = Append(microtasks, m)

\* the catch a rejected remote call of operation op reaches: create logs it
\* on the spot, update and retrieve throw it on to the catch of the operation
CallCatch(op) == IF op = CREATE THEN "createCallCatch" ELSE OpCatch(op)

\* getAssetRegistry or getParticipantRegistry settles
LookupSettle(m, ok) ==
  /\ m \in Ids
  /\ msgs[m].pc = "waitLookup"
  /\ Settle(m, ok, "gotRegistry", CallCatch(msgs[m].op),
            <<"registry lookup failed">>)
  /\ UNCHANGED <<flow, session, settings, artifacts, attempts, registry>>

\* the then on the registry with add in the place of update
RegistryCallAdds(m) ==
  /\ Ready(m, "gotRegistry")
  /\ LET op == msgs[m].op
     IN  IF op = CREATE \/ op = UPDATE
         THEN Issue(msgs, m, Call("add", "", fromJSON(msgs[m].payload)),
                "waitRegistry")
         ELSE Issue(msgs, m, Call("get", msgs[m].payload.id, NoResource),
                "waitRegistry")
  /\ UNCHANGED <<flow, session, settings, artifacts, attempts, registry>>

\* the then on the registry: add, update or get
RegistryCall(m) ==
  /\ Ready(m, "gotRegistry")
  /\ LET op == msgs[m].op
     IN  IF op = CREATE
         THEN Issue(msgs, m, Call("add", "", fromJSON(msgs[m].payload)),
                "waitRegistry")
         ELSE IF op = UPDATE
         THEN Issue(msgs, m, Call("update", "", fromJSON(msgs[m].payload)),
                "waitRegistry")
         ELSE Issue(msgs, m, Call("get", msgs[m].payload.id, NoResource),
                "waitRegistry")
  /\ UNCHANGED <<flow, session, settings, artifacts, attempts, registry>>

\* the resources of type t with identifier i in the registry
Stored(t, i) == {r \in registry : r.type = t /\ r.id = i}

\* registry.add settles: it succeeds only for a resource not yet stored
AddSettle(m, ok) ==
  /\ m \in Ids
  /\ msgs[m].pc = "waitRegistry"
  /\ msgs[m].op = CREATE
  /\ LET resource == fromJSON(msgs[m].payload)
     IN  /\ ok => Stored(resource.type, resource.id) = {}
         /\ registry' = IF ok THEN registry \cup {resource} ELSE registry
  /\ Settle(m, ok, "ack", "createCallCatch", <<"add failed">>)
  /\ UNCHANGED <<flow, session, settings, artifacts, attempts>>

\* registry.update settles: it succeeds only for a stored resource
UpdateSettle(m, ok) ==
  /\ m \in Ids
  /\ msgs[m].pc = "waitRegistry"
  /\ msgs[m].op = UPDATE
  /\ LET resource == fromJSON(msgs[m].payload)
         old == Stored(resource.type, resource.id)
     IN  /\ ok => old # {}
         /\ registry' = IF ok THEN (registry \ old) \cup {resource}
                        ELSE registry
  /\ Settle(m, ok, "ack", "updateCatch", <<"update failed">>)
  /\ UNCHANGED <<flow, session, settings, artifacts, attempts>>

\* registry.get settles: it succeeds only with a stored resource
GetSettle(m, ok) ==
  /\ m \in Ids
  /\ msgs[m].pc = "waitRegistry"
  /\ msgs[m].op = RETRIEVE
  /\ LET found == Stored(msgs[m].payload.modelName, msgs[m].payload.id)
     IN  IF ok
         THEN \E r \in found :
                /\ msgs' = [msgs EXCEPT
                     ![m].calls[Len(msgs[m].calls)].result = "ok",
                     ![m].result = r,
                     ![m].pc = "gotResource"]
                /\ microtasks' = Append(microtasks, m)
         ELSE Settle(m, FALSE, "gotResource", "retrieveCatch",
                IF found = {} THEN <<"not found">> ELSE <<"get failed">>)
  /\ UNCHANGED <<flow, session, settings, artifacts, attempts, registry>>

\* submitTransaction settles
SubmitSettle(m, ok) ==
  /\ m \in Ids
  /\ msgs[m].pc = "waitSubmit"
  /\ Settle(m, ok, "ack", "createCallCatch", <<"submit failed">>)
  /\ UNCHANGED <<flow, session, settings, artifacts, attempts, registry>>

\* the then after add, update or submitTransaction: the status is cleared
Ack(m) ==
  /\ Ready(m, "ack")
  /\ Park([msgs EXCEPT ![m].status = Append(@, "{}")], m, "done")
  /\ UNCHANGED <<flow, session, settings, artifacts, attempts, registry>>

\* the then after get: the resource is serialized with the module's
\* serializer and handed to the adapter
RetrieveToJSON(m) ==
  /\ Ready(m, "gotResource")
  /\ IF serializer = undefined
     THEN Throw(msgs, m, "retrieveCatch", TypeErrorOf("toJSON"))
     ELSE Queue([msgs EXCEPT ![m].value = toJSON(msgs[m].result)], m,
                "midSend")
  /\ UNCHANGED <<flow, session, settings, artifacts, attempts, registry>>

\* the catch on the calls of create that clears the status as well
CreateCallCatchClears(m) ==
  /\ Ready(m, "createCallCatch")
  /\ Park([msgs EXCEPT ![m].errors = Append(@, msgs[m].error),
                       ![m].status = Append(@, "{}")], m, "done")
  /\ UNCHANGED <<flow, session, settings, artifacts, attempts, registry>>

\* the catch on the registry and submit calls of create
CreateCallCatch(m) ==
  /\ Ready(m, "createCallCatch")
  /\ Park([msgs EXCEPT ![m].errors = Append(@, msgs[m].error)], m, "done")
  /\ UNCHANGED <<flow, session, settings, artifacts, attempts, registry>>

\* the catch of create that throws the error on to the adapter
CreateCatchThrows(m) ==
  /\ Ready(m, "createCatch")
  /\ Throw([msgs EXCEPT ![m].errors = Append(@, <<"create">>)], m,
           "outCatch", msgs[m].error)
  /\ UNCHANGED <<flow, session, settings, artifacts, attempts, registry>>

\* the catch of create
CreateCatch(m) ==
  /\ Ready(m, "createCatch")
  /\ Park([msgs EXCEPT ![m].errors = Append(@, <<"create">>)], m, "done")
  /\ UNCHANGED <<flow, session, settings, artifacts, attempts, registry>>

\* the catch of update
UpdateCatch(m) ==
  /\ Ready(m, "updateCatch")
  /\ Park([msgs EXCEPT
       ![m].status = Append(@, "Error updating resource"),
       ![m].errors = Append(@,
          <<"update: error thrown doing update ">> \o msgs[m].error)],
       m, "done")
  /\ UNCHANGED <<flow, session, settings, artifacts, attempts, registry>>

\* the catch of retrieve written as the catch of create: logged, not thrown
RetrieveCatchSwallows(m) ==
  /\ Ready(m, "retrieveCatch")
  /\ Queue([msgs EXCEPT ![m].errors = Append(@, <<"retrieve">>)], m,
           "midSend")
  /\ UNCHANGED <<flow, session, settings, artifacts, attempts, registry>>

\* the catch of retrieve: the error is wrapped and thrown to the adapter
RetrieveCatch(m) ==
  /\ Ready(m, "retrieveCatch")
  /\ Throw(msgs, m, "midCatch",
       <<"retrieve: error thrown doing retrieve ">> \o msgs[m].error)
  /\ UNCHANGED <<flow, session, settings, artifacts, attempts, registry>>

----------------------------------------------------------------------------
\* Flow adapters: the end of the chain

\* the last then of the mid node without the assignment to msg.payload
MidSendKeepsPayload(m) ==
  /\ Ready(m, "midSend")
  /\ Park([msgs EXCEPT ![m].status = Append(@, "{}"),
                       ![m].sent = Append(@, msgs[m].payload)],
          m, "done")
  /\ UNCHANGED <<flow, session, settings, artifacts, attempts, registry>>

\* the last then of the mid node
MidSend(m) ==
  /\ Ready(m, "midSend")
  /\ Park([msgs EXCEPT ![m].status = Append(@, "{}"),
                       ![m].sent = Append(@, msgs[m].value)],
          m, "done")
  /\ UNCHANGED <<flow, session, settings, artifacts, attempts, registry>>

\* the catch of the out node
OutCatch(m) ==
  /\ Ready(m, "outCatch")
  /\ Park([msgs EXCEPT ![m].status = Append(@, "Error with inputs"),
                       ![m].errors = Append(@, msgs[m].error)],
          m, "done")
  /\ UNCHANGED <<flow, session, settings, artifacts, attempts, registry>>

\* the catch of the mid node
MidCatch(m) ==
  /\ Ready(m, "midCatch")
  /\ Park([msgs EXCEPT ![m].status = Append(@, "Error"),
                       ![m].errors = Append(@, msgs[m].error)],
          m, "done")
  /\ UNCHANGED <<flow, session, settings, artifacts, attempts, registry>>

----------------------------------------------------------------------------
\* Properties

Attempts == 1..Len(attempts)

\* the connect attempts whose connectionPromise is still pending
InFlight == {k \in Attempts : attempts[k].promise = "pending"}

\* the connect calls made on behalf of message m
StartedBy(m) == {k \in Attempts : attempts[k].by = m}

\* message m called ensureConnected in this step
CallsEnsureConnected(m) == msgs[m].via = "none" /\ msgs'[m].via # "none"

\* C1: a call of ensureConnected made while the session is connecting makes
\* no connect call and is given the promise of the attempt in flight; the
\* callers of one attempt are resumed together, when its promise settles; at
\* most one connect attempt is in flight in every state.
C1_Dedup ==
  /\ [](/\ Cardinality(InFlight) <= 1
        /\ \A m \in Ids :
             /\ msgs[m].via = "joined" => StartedBy(m) = {}
             /\ msgs[m].fut > 0 =>
                  (msgs[m].pc = "waitConnect"
                     <=> attempts[msgs[m].fut].promise = "pending"))
  /\ [][\A m \in Ids :
          (CallsEnsureConnected(m) /\ connecting /\ ~connected) =>
             /\ attempts' = [attempts EXCEPT ![connectionPromise].waiters =
                                Append(@, m)]
             /\ InFlight = {connectionPromise}
             /\ msgs'[m].fut = connectionPromise
             /\ msgs'[m].pc = "waitConnect"]_vars

\* two callers of one attempt, the second joined while it was in flight,
\* have been resumed
C1_Witness ==
  \E m1, m2 \in Ids :
    /\ msgs[m1].via = "started"
    /\ msgs[m2].via = "joined"
    /\ msgs[m1].fut = msgs[m2].fut
    /\ msgs[m1].pc # "waitConnect"
    /\ msgs[m2].pc # "waitConnect"
    /\ Len(attempts) = 1

\* C2 (as claimed): when the remote connect fails, the promise ensureConnected
\* gave is rejected and the operation's then does not run.
C2_FailedConnectRejects ==
  \A m \in Ids :
    (msgs[m].fut > 0 /\ attempts[msgs[m].fut].outcome = "failed") =>
      /\ attempts[msgs[m].fut].promise = "rejected"
      /\ msgs[m].pc # "body"

\* C3: every registry lookup, add, update, get and submitTransaction call is
\* issued while the session is connected, and a message whose connect attempt
\* failed issues none.
C3_CallsOnlyConnected ==
  \A m \in Ids :
    /\ \A i \in 1..Len(msgs[m].calls) : msgs[m].calls[i].connected
    /\ (msgs[m].fut > 0 /\ attempts[msgs[m].fut].outcome = "failed") =>
         msgs[m].calls = <<>>

\* one message ended without a call after its connect failed, another has a
\* call issued
C3_Witness ==
  \E m1, m2 \in Ids :
    /\ msgs[m1].fut > 0
    /\ attempts[msgs[m1].fut].outcome = "failed"
    /\ msgs[m1].pc = "done"
    /\ msgs[m2].calls # <<>>

\* C4: once connected the session stays connected, and a call of
\* ensureConnected in that state makes no connect call and has its then queued
\* at once, whatever the settings of the calling node.
C4_ConnectedStays ==
  [][connected =>
       /\ connected'
       /\ ~connecting'
       /\ Len(attempts') = Len(attempts)
       /\ \A m \in Ids : CallsEnsureConnected(m) =>
            /\ msgs'[m].via = "resolved"
            /\ msgs'[m].pc = "body"
            /\ microtasks'[Len(microtasks')] = m]_vars

\* a node with other settings than those of the connection was resumed at
\* once
C4_Witness ==
  /\ connected
  /\ \E m \in Ids : \E k \in Attempts :
       /\ msgs[m].via = "resolved"
       /\ attempts[k].outcome = "connected"
       /\ attempts[k].profile # NodeConfig(msgs[m].node).connectionProfile

\* the four connection parameters of a configuration are set
Complete(config) ==
  /\ config.connectionProfile # ""
  /\ config.businessNetworkIdentifier # ""
  /\ config.participantId # ""
  /\ config.participantPassword # ""

\* the status the catch of m's adapter sets
ErrorStatus(m) ==
  IF NodeType(msgs[m].node) = MidType THEN "Error" ELSE "Error with inputs"

\* a callback of message m ran in this step
Steps(m) == msgs'[m] # msgs[m]

\* a message for an out node set to create whose payload has no $class
NoClassCreate(m) ==
  /\ NodeType(msgs[m].node) = OutType
  /\ NodeConfig(msgs[m].node).actionType = "create"
  /\ msgs[m].payload.class = ""

\* C5: a message for a create node whose payload has no $class never reaches
\* ensureConnected or connect, ends with the adapter's error status and one
\* error, '$class not set in payload' when the node's configuration is
\* complete, and its callbacks leave the session state as it is.
C5_NoClassCreate ==
  /\ [](\A m \in Ids : NoClassCreate(m) =>
          /\ msgs[m].via = "none"
          /\ msgs[m].op = ""
          /\ StartedBy(m) = {}
          /\ msgs[m].calls = <<>>
          /\ msgs[m].pc = "done" =>
               /\ msgs[m].status = <<"Error with inputs">>
               /\ Len(msgs[m].errors) = 1
               /\ Complete(NodeConfig(msgs[m].node)) =>
                    msgs[m].errors = << <<"$class not set in payload">> >>)
  /\ [][\A m \in Ids : (NoClassCreate(m) /\ Steps(m)) =>
          UNCHANGED <<session, attempts>>]_vars

\* such a message on a node with a complete configuration has ended
C5_Witness ==
  \E m \in Ids :
    /\ NoClassCreate(m)
    /\ Complete(NodeConfig(msgs[m].node))
    /\ msgs[m].checked
    /\ msgs[m].pc = "done"

\* the calls the dispatcher makes for an action on a declaration kind
Route(op, kind) ==
  CASE op = CREATE /\ kind = "Asset" -> <<"getAssetRegistry", "add">>
    [] op = CREATE /\ kind = "Participant" ->
         <<"getParticipantRegistry", "add">>
    [] op = CREATE /\ kind = "Transaction" -> <<"submitTransaction">>
    [] op = UPDATE /\ kind = "Asset" -> <<"getAssetRegistry", "update">>
    [] op = UPDATE /\ kind = "Participant" ->
         <<"getParticipantRegistry", "update">>
    [] OTHER -> <<>>

\* the names of the calls issued for m, in order
Ops(m) == [i \in 1..Len(msgs[m].calls) |-> msgs[m].calls[i].op]

IsPrefix(a, b) == Len(a) <= Len(b) /\ \A i \in 1..Len(a) : a[i] = b[i]

\* no call issued for m has failed or is pending
AllOk(m) == \A i \in 1..Len(msgs[m].calls) : msgs[m].calls[i].result = "ok"

\* C6: the calls made for a create or update are those of the table for the
\* action and the declaration kind of the resource, in that order, the lookup
\* with the fully-qualified name and add, update and submit with the
\* resource; the first is made when the resource is classified and all are
\* made when none fails; for a pair the table has no call for, no call is made
\* and the error names the unhandled type.
C6_Routing ==
  \A m \in Ids : msgs[m].op \in {CREATE, UPDATE} =>
    LET r == Route(msgs[m].op, msgs[m].kind)
        p == msgs[m].payload
    IN  /\ IsPrefix(Ops(m), r)
        /\ (msgs[m].kind # "" /\ r # <<>>) => msgs[m].calls # <<>>
        /\ \A i \in 1..Len(msgs[m].calls) :
             LET c == msgs[m].calls[i]
             IN  IF c.op \in {"getAssetRegistry", "getParticipantRegistry"}
                 THEN c.name = p.class
                 ELSE c.res = [type |-> p.class, id |-> p.id, v |-> p.v]
        /\ (msgs[m].kind # "" /\ msgs[m].pc = "done" /\ AllOk(m)) =>
             Ops(m) = r
        /\ (msgs[m].kind # "" /\ r = <<>> /\ msgs[m].pc = "done") =>
             msgs[m].errors =
               IF msgs[m].op = CREATE
               THEN <<UnableToHandle>>
               ELSE << <<"update: error thrown doing update ">>
                       \o UnableToHandle >>

\* a transaction was submitted by a create and an update of a transaction was
\* rejected
C6_Witness ==
  \E m1, m2 \in Ids :
    /\ msgs[m1].op = CREATE
    /\ msgs[m1].kind = "Transaction"
    /\ msgs[m1].pc = "done"
    /\ Ops(m1) = <<"submitTransaction">>
    /\ AllOk(m1)
    /\ msgs[m2].op = UPDATE
    /\ msgs[m2].kind = "Transaction"
    /\ msgs[m2].pc = "done"

\* a message for an update node whose payload is of a transaction type
UpdateOfTransaction(m) ==
  /\ NodeType(msgs[m].node) = OutType
  /\ NodeConfig(msgs[m].node).actionType = "update"
  /\ DeclKind(msgs[m].payload.class) = "Transaction"

\* C7 (as claimed): an update of a transaction makes no network call, connect
\* included, and fails with the error for the unsupported type.
C7_NoNetworkCall ==
  \A m \in Ids : UpdateOfTransaction(m) =>
    /\ StartedBy(m) = {}
    /\ msgs[m].calls = <<>>
    /\ msgs[m].pc = "done" =>
         msgs[m].errors = << <<"update: error thrown doing update ">>
                             \o UnableToHandle >>

\* C7 (amended): an update of a transaction makes no registry or submit call
\* and never succeeds: it ends with the status 'Error updating resource' and
\* one error, which names the unhandled type when the payload was classified;
\* the only network call made for it is the connect call of ensureConnected,
\* at most one, made when it found the session disconnected.
C7_NoRegistryCall ==
  \A m \in Ids : UpdateOfTransaction(m) =>
    /\ msgs[m].calls = <<>>
    /\ Cardinality(StartedBy(m)) <= 1
    /\ StartedBy(m) # {} => msgs[m].via = "started"
    /\ \A i \in 1..Len(msgs[m].status) : msgs[m].status[i] # "{}"
    /\ msgs[m].pc = "done" =>
         /\ msgs[m].status = <<"Error updating resource">>
         /\ Len(msgs[m].errors) = 1
         /\ msgs[m].kind # "" =>
              msgs[m].errors = << <<"update: error thrown doing update ">>
                                  \o UnableToHandle >>

\* an update of a transaction that made the connect call was rejected for its
\* type
C7_Witness ==
  \E m \in Ids :
    /\ UpdateOfTransaction(m)
    /\ msgs[m].via = "started"
    /\ msgs[m].kind = "Transaction"
    /\ msgs[m].pc = "done"

\* the error checkConfig is to throw for the nodes with an incomplete
\* configuration
ConfigError(n) ==
  CASE n = "bad1234" -> "connection profile must be set"
    [] n = "bad234" -> "business network identifier must be set"
    [] n = "bad34" -> "participant id must be set"
    [] n = "bad4" -> "participant password must be set"

\* C8: a message for a node with an incomplete configuration ends with the
\* error for the first empty parameter in the order connectionProfile,
\* businessNetworkIdentifier, participantId, participantPassword; its payload
\* is not validated, no connect, registry or submit call is made for it, and
\* its callbacks leave the stored settings and the session state as they are.
C8_ConfigFirst ==
  /\ [](\A m \in Ids : ~Complete(NodeConfig(msgs[m].node)) =>
          /\ ~msgs[m].checked
          /\ msgs[m].via = "none"
          /\ StartedBy(m) = {}
          /\ msgs[m].calls = <<>>
          /\ msgs[m].pc = "done" =>
               /\ msgs[m].errors = << <<ConfigError(msgs[m].node)>> >>
               /\ msgs[m].status = <<ErrorStatus(m)>>)
  /\ [][\A m \in Ids : (~Complete(NodeConfig(msgs[m].node)) /\ Steps(m)) =>
          UNCHANGED <<session, settings, attempts>>]_vars

\* such a message has ended after another node stored its settings
C8_Witness ==
  /\ connectionProfileName = "pA"
  /\ \E m \in Ids :
       /\ msgs[m].node = "bad234"
       /\ msgs[m].pc = "done"

\* a message for a mid node whose payload lacks modelName or id
BadRetrieve(m) ==
  /\ NodeType(msgs[m].node) = MidType
  /\ (msgs[m].payload.modelName = "" \/ msgs[m].payload.id = "")

\* C9: a message for a mid node whose payload lacks modelName or id never
\* reaches ensureConnected, connect or a registry call and sends nothing; it
\* ends with the status 'Error' and one error, which on a node with a complete
\* configuration is 'modelName not set in payload' when modelName is missing
\* and 'id not set in payload' otherwise.
C9_BadRetrieve ==
  \A m \in Ids : BadRetrieve(m) =>
    /\ msgs[m].via = "none"
    /\ msgs[m].op = ""
    /\ StartedBy(m) = {}
    /\ msgs[m].calls = <<>>
    /\ msgs[m].sent = <<>>
    /\ msgs[m].pc = "done" =>
         /\ msgs[m].status = <<"Error">>
         /\ Len(msgs[m].errors) = 1
         /\ Complete(NodeConfig(msgs[m].node)) =>
              msgs[m].errors =
                IF msgs[m].payload.modelName = ""
                THEN << <<"modelName not set in payload">> >>
                ELSE << <<"id not set in payload">> >>

\* a message that lacks both has ended on a node with a complete
\* configuration
C9_Witness ==
  \E m \in Ids :
    /\ msgs[m].node = "mid"
    /\ msgs[m].payload.modelName = ""
    /\ msgs[m].payload.id = ""
    /\ msgs[m].pc = "done"

\* registry.get succeeded for m
GetOk(m) ==
  \E i \in 1..Len(msgs[m].calls) :
    msgs[m].calls[i].op = "get" /\ msgs[m].calls[i].result = "ok"

\* C10: the mid node sends at most one message, only after get succeeded, and
\* its payload is the JSON of the resource get gave, the one stored for the
\* type and id asked for; a handler that ended has sent exactly when get
\* succeeded, and otherwise its last status is 'Error' and it logged an error.
C10_SendIffGet ==
  \A m \in Ids : NodeType(msgs[m].node) = MidType =>
    /\ msgs[m].sent # <<>> =>
         /\ GetOk(m)
         /\ msgs[m].result.type = msgs[m].payload.modelName
         /\ msgs[m].result.id = msgs[m].payload.id
         /\ msgs[m].sent =
              << [class |-> msgs[m].result.type, modelName |-> "",
                  id |-> msgs[m].result.id, v |-> msgs[m].result.v] >>
    /\ msgs[m].pc = "done" =>
         /\ GetOk(m) <=> msgs[m].sent # <<>>
         /\ msgs[m].sent = <<>> =>
              /\ msgs[m].status # <<>>
              /\ msgs[m].status[Len(msgs[m].status)] = "Error"
              /\ Len(msgs[m].errors) = 1

\* a retrieve has sent the resource it fetched
C10_Witness ==
  \E m \in Ids :
    /\ msgs[m].op = RETRIEVE
    /\ msgs[m].sent # <<>>
    /\ msgs[m].result \in registry

\* the operation of m went through: its last call is the add, update,
\* submitTransaction or get and it succeeded
Succeeded(m) ==
  /\ msgs[m].calls # <<>>
  /\ msgs[m].calls[Len(msgs[m].calls)].op
       \in {"add", "update", "submitTransaction", "get"}
  /\ msgs[m].calls[Len(msgs[m].calls)].result = "ok"

\* the status values the catches set
ErrorStatuses == {"Error with inputs", "Error", "Error updating resource"}

\* C11 (as claimed): a handler that ended without its operation going through
\* has logged an error and has left an error status as the node's status.
C11_FailureReported ==
  \A m \in Ids : (msgs[m].pc = "done" /\ ~Succeeded(m)) =>
    /\ msgs[m].errors # <<>>
    /\ msgs[m].status # <<>>
    /\ msgs[m].status[Len(msgs[m].status)] \in ErrorStatuses

\* C12: once create or update was called for a message, its chain never
\* reaches the out node's catch: the operation's promise is not rejected, a
\* failure is logged by the operation itself.  A retrieve that fails rejects:
\* the mid node's catch sets the status 'Error' and logs the error retrieve
\* wrapped.  A callback that is neither queued nor waiting for a remote call
\* has ended, so no chain is left rejected.
C12_Propagation ==
  \A m \in Ids :
    /\ msgs[m].op \in {CREATE, UPDATE} =>
         /\ msgs[m].pc # "outCatch"
         /\ \A i \in 1..Len(msgs[m].status) :
              msgs[m].status[i] # "Error with inputs"
         /\ (msgs[m].pc = "done" /\ ~Succeeded(m)) => Len(msgs[m].errors) = 1
    /\ (msgs[m].op = RETRIEVE /\ msgs[m].pc = "done" /\ ~Succeeded(m)) =>
         /\ msgs[m].status = <<"retrieving resource", "Error">>
         /\ Len(msgs[m].errors) = 1
         /\ msgs[m].errors[1][1] = "retrieve: error thrown doing retrieve "
         /\ msgs[m].sent = <<>>
    /\ msgs[m].pc \in {"done", "waitConnect", "waitLookup", "waitRegistry",
                       "waitSubmit"}
         \/ \E i \in 1..Len(microtasks) : microtasks[i] = m

\* a failed update and a failed retrieve have both ended
C12_Witness ==
  \E m1, m2 \in Ids :
    /\ msgs[m1].op \in {CREATE, UPDATE}
    /\ msgs[m1].pc = "done"
    /\ ~Succeeded(m1)
    /\ msgs[m2].op = RETRIEVE
    /\ msgs[m2].pc = "done"
    /\ ~Succeeded(m2)

Populated ==
  /\ businessNetworkDefinition # undefined
  /\ serializer # undefined
  /\ modelManager # undefined
  /\ introspector # undefined

Absent ==
  /\ businessNetworkDefinition = undefined
  /\ serializer = undefined
  /\ modelManager = undefined
  /\ introspector = undefined

\* C13 (as claimed): an artifact is populated only while the session is
\* connected.
C13_OnlyConnected == ~Absent => connected

\* C13 (amended): the four artifacts are populated together, and they are
\* populated exactly when the session is connected or is connecting with the
\* remote connect already resolved, the step before connected is set; they
\* are absent while the session is disconnected and while the connect call
\* is pending.
C13_Artifacts ==
  /\ Populated \/ Absent
  /\ Populated <=>
       \/ connected
       \/ /\ connecting
          /\ connectionPromise \in Attempts
          /\ attempts[connectionPromise].outcome = "setup"

\* the artifacts are populated and connected is not yet set
C13_Witness == Populated /\ connecting /\ ~connected

\* the four connection parameters of the configuration of node n
ParamsOf(n) ==
  <<NodeConfig(n).connectionProfile, NodeConfig(n).businessNetworkIdentifier,
    NodeConfig(n).participantId, NodeConfig(n).participantPassword>>

\* the four parameters connect attempt k was called with
ConnectArgs(k) ==
  <<attempts[k].profile, attempts[k].network, attempts[k].user,
    attempts[k].secret>>

\* C14 (as claimed): every connect call is made with the connection
\* parameters of the configuration of the message whose ensureConnected call
\* started it.
C14_OwnParams ==
  \A k \in Attempts : ConnectArgs(k) = ParamsOf(msgs[attempts[k].by].node)

\* C15 (as claimed): a message for an out node whose payload has no $class
\* never has create or update called for it and never reaches
\* ensureConnected, whatever the action type of the node.
C15_ClassChecked ==
  \A m \in Ids :
    (NodeType(msgs[m].node) = OutType /\ msgs[m].payload.class = "") =>
      /\ msgs[m].op = ""
      /\ msgs[m].via = "none"
      /\ StartedBy(m) = {}

\* the messages whose add or update of a resource of type t and identifier i
\* succeeded
Wrote(op, t, i) ==
  {c \in Ids : /\ msgs[c].op = op
               /\ msgs[c].payload.class = t
               /\ msgs[c].payload.id = i
               /\ Succeeded(c)}

C17_NoRetry ==
  /\ [](/\ \A m \in Ids : Cardinality(StartedBy(m)) <= 1
        /\ (attempts # <<>> /\ attempts[Len(attempts)].outcome = "failed") =>
             (~connected /\ ~connecting))
  /\ [][/\ Len(attempts') \in {Len(attempts), Len(attempts) + 1}
        /\ Len(attempts') = Len(attempts) + 1 =>
             /\ ~connected /\ ~connecting
             /\ \E m \in Ids :
                  /\ CallsEnsureConnected(m)
                  /\ attempts'[Len(attempts')].by = m
        /\ \A m \in Ids :
             (CallsEnsureConnected(m) /\ ~connected /\ ~connecting) =>
               /\ Len(attempts') = Len(attempts) + 1
               /\ msgs'[m].via = "started"
               /\ connecting']_vars

\* after a failed attempt a second one was started by another message
C17_Witness ==
  /\ Len(attempts) = 2
  /\ attempts[1].outcome = "failed"
  /\ attempts[1].by # attempts[2].by

\* C18: the status of an out node's message is cleared at most once, and only
\* when the last call made for it is its add, update or submitTransaction and
\* that call succeeded, as did the lookup before it; a message with a failed
\* step has no cleared status and a message with a cleared status logged no
\* error.
C18_AckAfterSuccess ==
  \A m \in Ids : NodeType(msgs[m].node) = OutType =>
    LET acks == {i \in 1..Len(msgs[m].status) : msgs[m].status[i] = "{}"}
    IN  /\ Cardinality(acks) <= 1
        /\ acks # {} =>
             /\ msgs[m].calls # <<>>
             /\ msgs[m].calls[Len(msgs[m].calls)].op
                  \in {"add", "update", "submitTransaction"}
             /\ AllOk(m)
             /\ msgs[m].errors = <<>>
             /\ msgs[m].status = <<"{}">>
        /\ (msgs[m].pc = "done" /\ Succeeded(m)) => acks # {}

\* a create has cleared the status after its add
C18_Witness ==
  \E m \in Ids :
    /\ msgs[m].op = CREATE
    /\ msgs[m].status = <<"{}">>
    /\ Ops(m) = <<"getAssetRegistry", "add">>

\* the stored connection parameters
Stored4 ==
  <<connectionProfileName, businessNetworkIdentifier, participantId,
    participantPassword>>

\* the parameters of the nodes whose configuration passes checkConfig
ValidParams == {ParamsOf(n) : n \in {x \in Nodes : Complete(NodeConfig(x))}}

\* C19: the four stored parameters are all undefined until a message has
\* stored its configuration and from then on are the four parameters of one
\* node's configuration: the then of a message that passed checkConfig stores
\* the four of its node together and no other callback changes them; every
\* connect call is made with the four parameters of one configuration.
C19_OneConfig ==
  /\ [](/\ Stored4 \in ValidParams \cup
             {<<undefined, undefined, undefined, undefined>>}
        /\ \A k \in Attempts : ConnectArgs(k) \in ValidParams)
  /\ [][Stored4' # Stored4 =>
          \E m \in Ids :
            /\ msgs[m].pc = "setParams"
            /\ msgs'[m].pc = "checkPayLoad"
            /\ Complete(NodeConfig(msgs[m].node))
            /\ Stored4' = ParamsOf(msgs[m].node)]_vars

\* a connect call was made with the parameters of one configuration after
\* the stored ones were replaced by those of another
C19_Witness ==
  \E k \in Attempts :
    /\ ConnectArgs(k) # ParamsOf(msgs[attempts[k].by].node)
    /\ ConnectArgs(k) \in ValidParams

\* the handler of m has reported success: the status was cleared
Acked(m) == \E i \in 1..Len(msgs[m].status) : msgs[m].status[i] = "{}"

\* the handler of m ended with one outcome: the cleared status, with the one
\* message sent on a mid node, or one logged error and nothing sent
OneOutcome(m) ==
  /\ msgs[m].pc = "done"
  /\ Acked(m) <=> msgs[m].errors = <<>>
  /\ Len(msgs[m].errors) <= 1
  /\ Len(msgs[m].sent) = IF Acked(m) /\ NodeType(msgs[m].node) = MidType
                         THEN 1 ELSE 0

\* C20: when the callbacks that are queued run and every remote call settles,
\* a session that is connecting leaves that state, and every message received
\* ends with exactly one outcome, which it keeps.
C20_Terminates ==
  /\ (connecting /\ ~connected) ~> ~connecting
  /\ \A i \in 1..MaxMsgs : (i \in Ids) ~> (i \in Ids /\ OneOutcome(i))
  /\ [](\A m \in Ids : msgs[m].pc = "done" => OneOutcome(m))

\* a message that waited for a connect attempt that failed and one that
\* went through have ended
C20_Witness ==
  \E m1, m2 \in Ids :
    /\ msgs[m1].pc = "done"
    /\ msgs[m1].fut > 0
    /\ attempts[msgs[m1].fut].outcome = "failed"
    /\ msgs[m2].pc = "done"
    /\ Acked(m2)

----------------------------------------------------------------------------
Next ==
  \/ \E n \in Nodes : \E p \in FlowPayloads(flow, n) : Receive(n, p)
  \/ \E m \in Ids : CheckConfigBody(m)
  \/ \E m \in Ids : SetParams(m)
  \/ \E m \in Ids : CheckPayLoadBody(m)
  \/ \E m \in Ids : OutDispatch(m)
  \/ \E m \in Ids : MidDispatch(m)
  \/ \E k \in 1..Len(attempts) : \E ok \in BOOLEAN : ConnectSettle(k, ok)
  \/ \E k \in 1..Len(attempts) : ConnectThen1(k)
  \/ \E k \in 1..Len(attempts) : ConnectThen2(k)
  \/ \E k \in 1..Len(attempts) : ConnectCatch(k)
  \/ \E m \in Ids : CreateBody(m)
  \/ \E m \in Ids : UpdateBody(m)
  \/ \E m \in Ids : RetrieveBody(m)
  \/ \E m \in Ids : \E ok \in BOOLEAN : LookupSettle(m, ok)
  \/ \E m \in Ids : RegistryCall(m)
  \/ \E m \in Ids : \E ok \in BOOLEAN : AddSettle(m, ok)
  \/ \E m \in Ids : \E ok \in BOOLEAN : UpdateSettle(m, ok)
  \/ \E m \in Ids : \E ok \in BOOLEAN : GetSettle(m, ok)
  \/ \E m \in Ids : \E ok \in BOOLEAN : SubmitSettle(m, ok)
  \/ \E m \in Ids : Ack(m)
  \/ \E m \in Ids : RetrieveToJSON(m)
  \/ \E m \in Ids : CreateCallCatch(m)
  \/ \E m \in Ids : CreateCatch(m)
  \/ \E m \in Ids : UpdateCatch(m)
  \/ \E m \in Ids : RetrieveCatch(m)
  \/ \E m \in Ids : MidSend(m)
  \/ \E m \in Ids : OutCatch(m)
  \/ \E m \in Ids : MidCatch(m)

Spec == Init /\ [][Next]_vars

\* the callbacks of the job queue
Callbacks ==
  \/ \E m \in Ids :
       \/ CheckConfigBody(m) \/ SetParams(m) \/ CheckPayLoadBody(m)
       \/ OutDispatch(m) \/ MidDispatch(m)
       \/ CreateBody(m) \/ UpdateBody(m) \/ RetrieveBody(m)
       \/ RegistryCall(m) \/ Ack(m) \/ RetrieveToJSON(m)
       \/ CreateCallCatch(m) \/ CreateCatch(m) \/ UpdateCatch(m)
       \/ RetrieveCatch(m) \/ MidSend(m) \/ OutCatch(m) \/ MidCatch(m)
  \/ \E k \in 1..Len(attempts) :
       ConnectThen1(k) \/ ConnectThen2(k) \/ ConnectCatch(k)

\* the remote calls that settle
Remote ==
  \/ \E k \in 1..Len(attempts) : \E ok \in BOOLEAN : ConnectSettle(k, ok)
  \/ \E m \in Ids : \E ok \in BOOLEAN :
       \/ LookupSettle(m, ok) \/ AddSettle(m, ok) \/ UpdateSettle(m, ok)
       \/ GetSettle(m, ok) \/ SubmitSettle(m, ok)

\* the state after construction with the flow "mixed" deployed
FairInit ==
  /\ flow = "mixed"
  /\ connected = FALSE
  /\ connecting = FALSE
  /\ connectionPromise = 0
  /\ connectionProfileName = undefined
  /\ businessNetworkIdentifier = undefined
  /\ participantId = undefined
  /\ participantPassword = undefined
  /\ businessNetworkDefinition = undefined
  /\ serializer = undefined
  /\ modelManager = undefined
  /\ introspector = undefined
  /\ attempts = <<>>
  /\ registry = {}
  /\ msgs = <<>>
  /\ microtasks = <<>>

\* the job queue runs the callbacks that are queued, and every remote call
\* settles
FairSpec ==
  FairInit /\ [][Next]_vars /\ WF_vars(Callbacks) /\ WF_vars(Remote)
====
